---- MODULE Spec2Model ----
(***************************************************************************)
(* Model of the YouTube-AI-Scraper request pipeline (src/main.py):         *)
(* resolve_channel_id and its three identity lookups, fetch_channel_data,  *)
(* fetch_latest_video_details, fetch_comments, summarize_text,             *)
(* analyze_sentiment and the Flask handler index.                          *)
(*                                                                         *)
(* Strings are sequences of atoms.  An atom is a fixed piece of text; the  *)
(* atoms are chosen so that no pattern the code searches for can straddle  *)
(* two atoms in a way the atom sequence does not show:                     *)
(*   "H" = youtube.com   "/" = /        "W" = watch?    "V" = v=           *)
(*   "C" = channel       "U" = user     "@" = @         "&" = &            *)
(*   " " = one blank     "a", "b" = identifier characters                  *)
(* A Python Optional is a sequence of length 0 (None) or 1 (the value).    *)
(***************************************************************************)
EXTENDS Integers, Sequences, FiniteSets, TLC

VARIABLES
    pc,                      \* the statement the request has reached
    method,                  \* request.method ("" before the request)
    url,                     \* request.form["url"]
    threads,                 \* how many comment threads the platform holds
    channel_id,              \* index: channel_id
    channel_data,            \* index: channel_data
    video_data,              \* index: video_data
    video,                   \* fetch_latest_video_details: video
    summarized_description,  \* fetch_latest_video_details
    sentiment,               \* fetch_latest_video_details
    comment_items,           \* fetch_comments: response["items"]
    comments_data,           \* fetch_comments: comments_data
    rendered,                \* what index returned
    calls                    \* every external call made so far, in order

vars == <<pc, method, url, threads, channel_id, channel_data, video_data,
          video, summarized_description, sentiment, comment_items,
          comments_data, rendered, calls>>

-----------------------------------------------------------------------------
(* Bounds *)

\* largest number of fragments an input URL is built from
MaxFrags == 4
\* largest number of top-level comment threads a video has on the platform
NumThreads == 6

-----------------------------------------------------------------------------
(* Python values *)

None == <<>>
Some(v) == <<v>>

\* Python truthiness of an Optional[str]: None and "" are both falsy
Truthy(opt) == opt # None /\ opt[1] # <<>>

-----------------------------------------------------------------------------
(* str operations used by resolve_channel_id *)

Min(a, b) == IF a < b THEN a ELSE b

\* s[i:i+len(p)] == p
MatchAt(s, p, i) ==
    /\ i >= 1
    /\ i + Len(p) - 1 <= Len(s)
    /\ \A k \in 1..Len(p) : s[i + k - 1] = p[k]

\* p in s
Contains(s, p) == \E i \in 1..(Len(s) + 1) : MatchAt(s, p, i)

\* s.find(p), 1-based; 0 when p does not occur
Find(s, p) ==
    IF Contains(s, p)
    THEN CHOOSE i \in 1..(Len(s) + 1) :
            /\ MatchAt(s, p, i)
            /\ \A j \in 1..(i - 1) : ~MatchAt(s, p, j)
    ELSE 0

\* s.split(p)[-1]: str.split scans left to right over non-overlapping
\* occurrences of p, and the last piece is what follows the last one found
RECURSIVE SplitLast(_, _)
SplitLast(s, p) ==
    IF Find(s, p) = 0
    THEN s
    ELSE SplitLast(SubSeq(s, Find(s, p) + Len(p), Len(s)), p)

\* s.split(p)[0]: what precedes the first occurrence of p
SplitFirst(s, p) ==
    IF Find(s, p) = 0 THEN s ELSE SubSeq(s, 1, Find(s, p) - 1)

\* s.strip(): leading and trailing blanks removed
RECURSIVE Strip(_)
Strip(s) ==
    IF s = <<>> THEN s
    ELSE IF Head(s) = " " THEN Strip(Tail(s))
    ELSE IF s[Len(s)] = " " THEN Strip(SubSeq(s, 1, Len(s) - 1))
    ELSE s

-----------------------------------------------------------------------------
(* The literals of resolve_channel_id *)

WatchPattern   == <<"H", "/", "W", "V">>     \* "youtube.com/watch?v="
ChannelPattern == <<"H", "/", "C", "/">>     \* "youtube.com/channel/"
UserPattern    == <<"H", "/", "U", "/">>     \* "youtube.com/user/"
HandlePattern  == <<"H", "/", "@">>          \* "youtube.com/@"
VSep           == <<"V">>                    \* "v="
AmpSep         == <<"&">>                    \* "&"
ChannelSep     == <<"/", "C", "/">>          \* "/channel/"
UserSep        == <<"/", "U", "/">>          \* "/user/"
AtSep          == <<"@">>                    \* "@"

-----------------------------------------------------------------------------
(* The platform (googleapiclient) as the pipeline sees it: a query either  *)
(* raises or returns a response whose "items" is a list.                   *)

\* the channel id the platform reports for a video, a username or a handle
PlatformChannel == <<"U", "C", "a">>

Raises == [kind |-> "raise", items |-> <<>>]
Response(items) == [kind |-> "ok", items |-> items]

\* what request.execute() can do for each identity lookup: raise, answer
\* with no items, or answer with one item of the shape that query returns
VideoLookupResponses ==
    {Raises, Response(<<>>),
     Response(<<[snippet |-> [channelId |-> PlatformChannel]]>>)}

UsernameLookupResponses ==
    {Raises, Response(<<>>), Response(<<[id |-> PlatformChannel]>>)}

HandleLookupResponses ==
    {Raises, Response(<<>>),
     Response(<<[snippet |-> [channelId |-> PlatformChannel]]>>)}

\* the log entry of one external call: the query, its key, what came back
Outcome(resp) ==
    IF resp.kind = "raise" THEN "raise"
    ELSE IF resp.items = <<>> THEN "zero" ELSE "items"

Call(op, key, outcome) == [op |-> op, key |-> key, outcome |-> outcome]

-----------------------------------------------------------------------------
(* Channel Identity Lookup: the three strategies.  The try/except of each  *)
(* turns a raising request into None; an empty "items" falls through to    *)
(* the final return None.                                                  *)

get_channel_from_video(video_id, resp) ==
    IF resp.kind = "raise" THEN None
    ELSE IF resp.items # <<>> THEN Some(resp.items[1].snippet.channelId)
    ELSE None

get_channel_from_username(username, resp) ==
    IF resp.kind = "raise" THEN None
    ELSE IF resp.items # <<>> THEN Some(resp.items[1].id)
    ELSE None

\* get_channel_from_handle falling back on the handle itself when the
\* search finds nothing
get_channel_from_handle_fallback(handle, resp) ==
    IF resp.kind = "raise" THEN None
    ELSE IF resp.items # <<>> THEN Some(resp.items[1].snippet.channelId)
    ELSE Some(handle)

get_channel_from_handle(handle, resp) ==
    IF resp.kind = "raise" THEN None
    ELSE IF resp.items # <<>> THEN Some(resp.items[1].snippet.channelId)
    ELSE None

-----------------------------------------------------------------------------
(* URL Resolver *)

\* Route with the channel test placed before the video test
RouteChannelFirst(u) ==
    IF Contains(u, ChannelPattern)
    THEN [branch |-> "channel", key |-> Strip(SplitLast(u, ChannelSep))]
    ELSE IF Contains(u, WatchPattern)
    THEN [branch |-> "video", key |-> SplitFirst(SplitLast(u, VSep), AmpSep)]
    ELSE IF Contains(u, UserPattern)
    THEN [branch |-> "user", key |-> Strip(SplitLast(u, UserSep))]
    ELSE IF Contains(u, HandlePattern)
    THEN [branch |-> "handle", key |-> Strip(SplitLast(u, AtSep))]
    ELSE [branch |-> "invalid", key |-> <<>>]

\* the if/elif chain of resolve_channel_id: which branch is taken and the
\* key it extracts
Route(u) ==
    IF Contains(u, WatchPattern)
    THEN [branch |-> "video", key |-> SplitFirst(SplitLast(u, VSep), AmpSep)]
    ELSE IF Contains(u, ChannelPattern)
    THEN [branch |-> "channel", key |-> Strip(SplitLast(u, ChannelSep))]
    ELSE IF Contains(u, UserPattern)
    THEN [branch |-> "user", key |-> Strip(SplitLast(u, UserSep))]
    ELSE IF Contains(u, HandlePattern)
    THEN [branch |-> "handle", key |-> Strip(SplitLast(u, AtSep))]
    ELSE [branch |-> "invalid", key |-> <<>>]

\* the external query a branch issues ("" for none)
LookupOp(branch) ==
    CASE branch = "video"  -> "videos.list(id)"
      [] branch = "user"   -> "channels.list(forUsername)"
      [] branch = "handle" -> "search.list(q)"
      [] OTHER             -> ""

\* what the platform can answer to the query of a branch; a branch that
\* issues no query sees no response
LookupResponses(branch) ==
    CASE branch = "video"  -> VideoLookupResponses
      [] branch = "user"   -> UsernameLookupResponses
      [] branch = "handle" -> HandleLookupResponses
      [] OTHER             -> {Raises}

\* ResolveCalls with the lookup issued a second time when the first
\* attempt brought no item
ResolveCallsRetry(u, resp) ==
    IF LookupOp(Route(u).branch) = "" THEN <<>>
    ELSE IF Outcome(resp) = "items"
    THEN <<Call(LookupOp(Route(u).branch), Route(u).key, Outcome(resp))>>
    ELSE <<Call(LookupOp(Route(u).branch), Route(u).key, Outcome(resp)),
           Call(LookupOp(Route(u).branch), Route(u).key, Outcome(resp))>>

\* the calls resolve_channel_id makes for u when its lookup answers resp
ResolveCalls(u, resp) ==
    IF LookupOp(Route(u).branch) = "" THEN <<>>
    ELSE <<Call(LookupOp(Route(u).branch), Route(u).key, Outcome(resp))>>

\* the value resolve_channel_id returns; the ValueError of the last branch
\* is caught by the function's own except and becomes None
resolve_channel_id(u, resp) ==
    LET r == Route(u) IN
    CASE r.branch = "video"   -> get_channel_from_video(r.key, resp)
      [] r.branch = "channel" -> Some(r.key)
      [] r.branch = "user"    -> get_channel_from_username(r.key, resp)
      [] r.branch = "handle"  -> get_channel_from_handle(r.key, resp)
      [] OTHER                -> None

-----------------------------------------------------------------------------
(* Input URLs *)

Fragments ==
    {WatchPattern, ChannelPattern, UserPattern, HandlePattern,
     <<"V">>, <<"&">>, <<"@">>, <<" ">>, <<"a">>}

RECURSIVE Concat(_)
Concat(fs) == IF fs = <<>> THEN <<>> ELSE Head(fs) \o Concat(Tail(fs))

\* every concatenation of at most MaxFrags fragments
Urls == {Concat(fs) : fs \in UNION {[1..n -> Fragments] : n \in 0..MaxFrags}}

\* one URL of each shape for the full pipeline: a video URL with a second
\* query parameter, a channel URL, a channel URL with nothing after the
\* pattern, a user URL, a handle URL, and a string of no known shape
PipelineUrls ==
    {WatchPattern \o <<"a", "&", "b">>,
     ChannelPattern \o <<"a", "b">>,
     ChannelPattern,
     UserPattern \o <<"a">>,
     HandlePattern \o <<"b">>,
     <<"a", "@", "b">>}

-----------------------------------------------------------------------------
(* Text Annotation *)

\* an exception that leaves a function: neither None nor Some(v)
Raised == <<<<"Exception">>, <<"raised">>>>

Summary(text) == <<"summary of">> \o text
Label(text) == [label |-> <<"label of">> \o text, score |-> <<"score">>]

\* summarize_text without its try/except
summarize_text_unguarded(text, ok) ==
    IF ok THEN Some(Summary(text)) ELSE Raised

\* summarize_text: the pipeline's result, or None when the pipeline raises
summarize_text(text, ok) == IF ok THEN Some(Summary(text)) ELSE None

\* analyze_sentiment: the first classification, or None when the pipeline
\* raises
analyze_sentiment(text, ok) == IF ok THEN Some(Label(text)) ELSE None

AnnotationOutcome(ok) == IF ok THEN "ok" ELSE "raise"

\* the calls made when summarize_text(text) gives s and, if that returned,
\* analyze_sentiment(text) follows
AnnotateCalls(text, s, sOk, aOk) ==
    <<Call("summarizer", text, AnnotationOutcome(sOk))>>
    \o (IF s = Raised THEN <<>>
        ELSE <<Call("sentiment_analyzer", text, AnnotationOutcome(aOk))>>)

-----------------------------------------------------------------------------
(* Channel Profile Fetch *)

ChannelItem(id) ==
    [snippet |-> [title |-> <<"title of">> \o id,
                  description |-> <<"about">> \o id],
     statistics |-> [subscriberCount |-> <<"subscribers of">> \o id,
                     viewCount |-> <<"views of">> \o id]]

ChannelResponses(id) == {Raises, Response(<<>>), Response(<<ChannelItem(id)>>)}

fetch_channel_data(id, resp) ==
    IF resp.kind = "raise" THEN None
    ELSE IF resp.items # <<>>
    THEN Some([title |-> resp.items[1].snippet.title,
               description |-> resp.items[1].snippet.description,
               subscribers |-> resp.items[1].statistics.subscriberCount,
               views |-> resp.items[1].statistics.viewCount])
    ELSE None

-----------------------------------------------------------------------------
(* Latest Content Fetch *)

VideoItem(id) ==
    [id |-> [videoId |-> <<"video of">> \o id],
     snippet |-> [title |-> <<"video title">>,
                  description |-> <<"video description">>,
                  publishedAt |-> <<"date">>]]

\* the search is not restricted to type=video: its newest hit can be a
\* playlist, whose id has no videoId
PlaylistItem(id) ==
    [id |-> [playlistId |-> <<"playlist of">> \o id],
     snippet |-> [title |-> <<"playlist title">>,
                  description |-> <<"playlist description">>,
                  publishedAt |-> <<"date">>]]

SearchResponses(id) ==
    {Raises, Response(<<>>), Response(<<VideoItem(id)>>),
     Response(<<PlaylistItem(id)>>)}

\* video["id"]["videoId"] raises KeyError
NoVideoId(item) == "videoId" \notin DOMAIN item.id

\* the dict fetch_latest_video_details returns for the item it found
VideoRecord(item, summary, sent, comments) ==
    [video_id |-> item.id.videoId,
     title |-> item.snippet.title,
     description |-> item.snippet.description,
     published_at |-> item.snippet.publishedAt,
     summarized_description |-> summary,
     sentiment |-> sent,
     comments |-> comments]

-----------------------------------------------------------------------------
(* Comment Aggregation *)

\* maxResults of the commentThreads query
MaxResults == 5

\* the i-th top-level comment thread of the video, in platform order
Thread(i) ==
    [snippet |-> [topLevelComment |-> [snippet |->
        [authorDisplayName |-> <<"author", ToString(i)>>,
         textDisplay |-> <<"text", ToString(i)>>]]]]

\* the platform's answer to a query with maxResults = m on a video with n
\* threads: the first m of them, in its own order
Page(n, m) == [i \in 1..Min(n, m) |-> Thread(i)]

\* the query without maxResults: every thread comes back
CommentResponsesUncapped(n) == {Raises, Response(Page(n, n))}

\* commentThreads().list(part="snippet", videoId=video_id, maxResults=5)
CommentResponses(n) == {Raises, Response(Page(n, MaxResults))}

AuthorOf(item) == item.snippet.topLevelComment.snippet.authorDisplayName
TextOf(item) == item.snippet.topLevelComment.snippet.textDisplay

\* the dict appended for one item
CommentRecord(item, summary, sent) ==
    [author |-> AuthorOf(item),
     text |-> TextOf(item),
     summarized_comment |-> summary,
     sentiment |-> sent]

\* no sentinel: comments_data stays empty
NoCommentsEmpty == <<>>

\* comments_data when the response has no items
NoComments ==
    <<[author |-> <<"No comments">>, text |-> <<"No comments available.">>]>>

-----------------------------------------------------------------------------
(* Presentation Boundary *)

\* Successor with the two fetches of index exchanged
SuccessorVideoFirst(step) ==
    CASE step = "resolve"              -> "fetch_latest_video"
      [] step = "fetch_latest_video"   -> "annotate_description"
      [] step = "annotate_description" -> "fetch_comments"
      [] step = "fetch_comments"       -> "annotate_comment"
      [] step = "annotate_comment"     -> "return_video"
      [] step = "return_video"         -> "fetch_channel_data"
      [] step = "fetch_channel_data"   -> "render"
      [] OTHER                         -> "done"

\* the statements of index and of fetch_latest_video_details in the order
\* they run when nothing returns early
Successor(step) ==
    CASE step = "resolve"              -> "fetch_channel_data"
      [] step = "fetch_channel_data"   -> "fetch_latest_video"
      [] step = "fetch_latest_video"   -> "annotate_description"
      [] step = "annotate_description" -> "fetch_comments"
      [] step = "fetch_comments"       -> "annotate_comment"
      [] step = "annotate_comment"     -> "return_video"
      [] step = "return_video"         -> "render"
      [] OTHER                         -> "done"

\* where control goes when fetch_latest_video_details returns
ReturnFromVideo == Successor("return_video")

\* RenderPost showing the error page also when the profile is missing
RenderPostNeedsProfile(cid, cdata, vdata) ==
    IF Truthy(cid) /\ cdata # None
    THEN [template |-> "result.html", error |-> None,
          channel_data |-> cdata, video_data |-> vdata]
    ELSE [template |-> "index.html", error |-> Some("Invalid YouTube URL"),
          channel_data |-> None, video_data |-> None]

\* what index renders for a POST
RenderPost(cid, cdata, vdata) ==
    IF Truthy(cid)
    THEN [template |-> "result.html", error |-> None,
          channel_data |-> cdata, video_data |-> vdata]
    ELSE [template |-> "index.html", error |-> Some("Invalid YouTube URL"),
          channel_data |-> None, video_data |-> None]

\* what index renders for a GET
RenderGet ==
    [template |-> "index.html", error |-> None,
     channel_data |-> None, video_data |-> None]

-----------------------------------------------------------------------------
(* The request *)

Init ==
    /\ pc = "request"
    /\ method = ""
    /\ url = <<>>
    /\ threads \in 0..NumThreads
    /\ channel_id = None
    /\ channel_data = None
    /\ video_data = None
    /\ video = None
    /\ summarized_description = None
    /\ sentiment = None
    /\ comment_items = <<>>
    /\ comments_data = <<>>
    /\ rendered = None
    /\ calls = <<>>

\* index, GET: the form
Get ==
    /\ pc = "request"
    /\ method' = "GET"
    /\ rendered' = Some(RenderGet)
    /\ pc' = "done"
    /\ UNCHANGED <<url, threads, channel_id, channel_data, video_data, video,
                   summarized_description, sentiment, comment_items,
                   comments_data, calls>>

\* index, POST: url = request.form["url"]
Post ==
    /\ pc = "request"
    /\ method' = "POST"
    /\ \E u \in PipelineUrls : url' = u
    /\ pc' = "resolve"
    /\ UNCHANGED <<threads, channel_id, channel_data, video_data, video,
                   summarized_description, sentiment, comment_items,
                   comments_data, rendered, calls>>

\* channel_id = resolve_channel_id(url); if channel_id: ... else: ...
Resolve ==
    /\ pc = "resolve"
    /\ \E resp \in LookupResponses(Route(url).branch) :
          /\ channel_id' = resolve_channel_id(url, resp)
          /\ calls' = calls \o ResolveCalls(url, resp)
    /\ pc' = IF Truthy(channel_id') THEN Successor("resolve") ELSE "render"
    /\ UNCHANGED <<method, url, threads, channel_data, video_data, video,
                   summarized_description, sentiment, comment_items,
                   comments_data, rendered>>

\* channel_data = fetch_channel_data(channel_id)
FetchChannelData ==
    /\ pc = "fetch_channel_data"
    /\ \E resp \in ChannelResponses(channel_id[1]) :
          /\ channel_data' = fetch_channel_data(channel_id[1], resp)
          /\ calls' = Append(calls,
                 Call("channels.list(id)", channel_id[1], Outcome(resp)))
    /\ pc' = Successor("fetch_channel_data")
    /\ UNCHANGED <<method, url, threads, channel_id, video_data, video,
                   summarized_description, sentiment, comment_items,
                   comments_data, rendered>>

\* fetch_latest_video_details up to the unpacking of the newest item
FetchLatestVideo ==
    /\ pc = "fetch_latest_video"
    /\ \E resp \in SearchResponses(channel_id[1]) :
          /\ calls' = Append(calls,
                 Call("search.list(channelId)", channel_id[1], Outcome(resp)))
          /\ IF resp.kind = "raise" \/ resp.items = <<>>
                \/ NoVideoId(resp.items[1])
             THEN /\ video' = None
                  /\ pc' = ReturnFromVideo
             ELSE /\ video' = Some(resp.items[1])
                  /\ pc' = Successor("fetch_latest_video")
    /\ video_data' = None
    /\ UNCHANGED <<method, url, threads, channel_id, channel_data,
                   summarized_description, sentiment, comment_items,
                   comments_data, rendered>>

\* summarized_description = summarize_text(description)
\* sentiment = analyze_sentiment(description)
AnnotateDescription ==
    /\ pc = "annotate_description"
    /\ \E sOk \in BOOLEAN, aOk \in BOOLEAN :
          LET text == video[1].snippet.description
              s == summarize_text(text, sOk)
              a == IF s = Raised THEN Raised ELSE analyze_sentiment(text, aOk)
          IN  /\ calls' = calls \o AnnotateCalls(text, s, sOk, aOk)
              /\ IF a = Raised
                 THEN /\ pc' = ReturnFromVideo
                      /\ UNCHANGED <<summarized_description, sentiment>>
                 ELSE /\ summarized_description' = s
                      /\ sentiment' = a
                      /\ pc' = Successor("annotate_description")
    /\ UNCHANGED <<method, url, threads, channel_id, channel_data, video_data,
                   video, comment_items, comments_data, rendered>>

\* fetch_comments up to the test of response["items"]
FetchComments ==
    /\ pc = "fetch_comments"
    /\ \E resp \in CommentResponses(threads) :
          /\ calls' = Append(calls,
                 Call("commentThreads.list(videoId)", video[1].id.videoId,
                      Outcome(resp)))
          /\ IF resp.kind = "raise"
             THEN /\ comments_data' = <<>>
                  /\ comment_items' = <<>>
                  /\ pc' = "return_video"
             ELSE IF resp.items = <<>>
             THEN /\ comments_data' = NoComments
                  /\ comment_items' = <<>>
                  /\ pc' = "return_video"
             ELSE /\ comments_data' = <<>>
                  /\ comment_items' = resp.items
                  /\ pc' = Successor("fetch_comments")
    /\ UNCHANGED <<method, url, threads, channel_id, channel_data, video_data,
                   video, summarized_description, sentiment, rendered>>

\* one turn of the loop over response["items"]
AnnotateComment ==
    /\ pc = "annotate_comment"
    /\ \E sOk \in BOOLEAN, aOk \in BOOLEAN :
          LET item == comment_items[Len(comments_data) + 1]
              s == summarize_text(TextOf(item), sOk)
              a == IF s = Raised THEN Raised
                   ELSE analyze_sentiment(TextOf(item), aOk)
          IN  /\ calls' = calls \o AnnotateCalls(TextOf(item), s, sOk, aOk)
              /\ IF a = Raised
                 THEN /\ comments_data' = <<>>
                      /\ pc' = "return_video"
                 ELSE /\ comments_data' =
                            Append(comments_data, CommentRecord(item, s, a))
                      /\ pc' = IF Len(comments_data) + 1 = Len(comment_items)
                               THEN Successor("annotate_comment")
                               ELSE "annotate_comment"
    /\ UNCHANGED <<method, url, threads, channel_id, channel_data, video_data,
                   video, summarized_description, sentiment, comment_items,
                   rendered>>

\* comments = fetch_comments(video_id); return {...}
ReturnVideo ==
    /\ pc = "return_video"
    /\ video_data' = Some(VideoRecord(video[1], summarized_description,
                                      sentiment, comments_data))
    /\ pc' = ReturnFromVideo
    /\ UNCHANGED <<method, url, threads, channel_id, channel_data, video,
                   summarized_description, sentiment, comment_items,
                   comments_data, rendered, calls>>

\* return render_template(...)
Render ==
    /\ pc = "render"
    /\ rendered' = Some(RenderPost(channel_id, channel_data, video_data))
    /\ pc' = Successor("render")
    /\ UNCHANGED <<method, url, threads, channel_id, channel_data, video_data,
                   video, summarized_description, sentiment, comment_items,
                   comments_data, calls>>

Next ==
    \/ Get
    \/ Post
    \/ Resolve
    \/ FetchChannelData
    \/ FetchLatestVideo
    \/ AnnotateDescription
    \/ FetchComments
    \/ AnnotateComment
    \/ ReturnVideo
    \/ Render

Spec == Init /\ [][Next]_vars

-----------------------------------------------------------------------------
(* resolve_channel_id on its own, over every URL of Urls *)

InitResolve ==
    /\ pc = "resolve"
    /\ method = "POST"
    /\ url \in Urls
    /\ threads = 0
    /\ channel_id = None
    /\ channel_data = None
    /\ video_data = None
    /\ video = None
    /\ summarized_description = None
    /\ sentiment = None
    /\ comment_items = <<>>
    /\ comments_data = <<>>
    /\ rendered = None
    /\ calls = <<>>

NextResolve == Resolve \/ Render

SpecResolve == InitResolve /\ [][NextResolve]_vars

-----------------------------------------------------------------------------
(* Properties *)

LookupOps ==
    {"videos.list(id)", "channels.list(forUsername)", "search.list(q)"}

PlatformOps ==
    LookupOps \cup {"channels.list(id)", "search.list(channelId)",
                    "commentThreads.list(videoId)"}

IsLookup(c) == c.op \in LookupOps
LookupCalls == SelectSeq(calls, IsLookup)

\* the calls of one kind, in the order they were made
CallsOf(op) == LET Is(c) == c.op = op IN SelectSeq(calls, Is)

\* resolve_channel_id has returned
Resolved == pc \notin {"request", "resolve"}

\* the index of the first pattern of rules that u contains, 0 for none
FirstMatch(u, rules) ==
    IF \E i \in 1..Len(rules) : Contains(u, rules[i])
    THEN CHOOSE i \in 1..Len(rules) :
            /\ Contains(u, rules[i])
            /\ \A j \in 1..(i - 1) : ~Contains(u, rules[j])
    ELSE 0

\* the lookup each rule delegates to; rule 2 looks nothing up
StrategyOf ==
    <<"videos.list(id)", "", "channels.list(forUsername)", "search.list(q)">>

\* the URL is classified by the first of rules it matches and resolved by
\* that rule's strategy alone; matching none, it is not resolved
ClassifiedBy(rules) ==
    Resolved =>
        LET r == FirstMatch(url, rules) IN
        /\ r = 0 => LookupCalls = <<>> /\ channel_id = None
        /\ r = 2 => LookupCalls = <<>> /\ channel_id # None
        /\ r \in {1, 3, 4} =>
              /\ Len(LookupCalls) = 1
              /\ LookupCalls[1].op = StrategyOf[r]

\* C1 as stated: the fourth rule is the handle marker "@" anywhere in the
\* URL
C1_ClassifiedByAtMarker ==
    ClassifiedBy(<<WatchPattern, ChannelPattern, UserPattern, AtSep>>)

\* C1 amended: the URL is classified by the first matching rule in the
\* order video-watch pattern, channel-path pattern, user-path pattern,
\* handle pattern "youtube.com/@", and only that rule's strategy is used; a
\* URL matching none of the four is never resolved
C1_ClassifiedByHandlePattern ==
    ClassifiedBy(<<WatchPattern, ChannelPattern, UserPattern, HandlePattern>>)

\* a URL that matches the video rule and two later rules went to the video
\* lookup
C1_Witness ==
    /\ Resolved
    /\ Contains(url, WatchPattern)
    /\ Contains(url, ChannelPattern)
    /\ Contains(url, HandlePattern)
    /\ Len(LookupCalls) = 1
    /\ LookupCalls[1].op = "videos.list(id)"

\* the value of the video-id query parameter: what follows the watch
\* pattern's "v=" up to the next "&" or the end of the string
VideoIdParameter(u) ==
    SplitFirst(SubSeq(u, Find(u, WatchPattern) + Len(WatchPattern), Len(u)),
               AmpSep)

\* C2: for a URL containing the video-watch pattern, the key passed to the
\* video lookup is the value of the video-id query parameter
C2_VideoKeyIsParameter ==
    (Resolved /\ Contains(url, WatchPattern)) =>
        /\ Len(LookupCalls) = 1
        /\ LookupCalls[1].key = VideoIdParameter(url)

\* the one call of a kind, when there is one
TheCall(op) == CallsOf(op)[1]
Made(op) == CallsOf(op) # <<>>

\* the request is a POST past the given point
Finished == method = "POST" /\ pc = "done"
CommentsFetched == pc \in {"return_video", "render", "done"} /\
                   Made("commentThreads.list(videoId)")

ErrorPage ==
    /\ rendered # None
    /\ rendered[1].template = "index.html"
    /\ rendered[1].error = Some("Invalid YouTube URL")

ResultPage ==
    /\ rendered # None
    /\ rendered[1].template = "result.html"
    /\ rendered[1].error = None

\* C3: a lookup that raises and a lookup that returns no items are treated
\* alike: resolve_channel_id returns None, nothing is fetched, and index
\* ends in the error page
C3_LookupFailureIsNotFound ==
    (Resolved /\ LookupCalls # <<>>
        /\ LookupCalls[1].outcome \in {"raise", "zero"}) =>
        /\ channel_id = None
        /\ pc \in {"render", "done"}
        /\ ~Made("channels.list(id)")
        /\ ~Made("search.list(channelId)")
        /\ pc = "done" => ErrorPage

\* the handle search found nothing and the error page was rendered
C3_Witness ==
    /\ Finished
    /\ LookupCalls # <<>>
    /\ LookupCalls[1].op = "search.list(q)"
    /\ LookupCalls[1].outcome = "zero"
    /\ ErrorPage

\* what index renders for a POST, given when resolution counts as failed
Rendering(failed) ==
    Finished =>
        /\ ErrorPage <=> failed
        /\ ~failed =>
              /\ ResultPage
              /\ Len(CallsOf("channels.list(id)")) = 1
              /\ Len(CallsOf("search.list(channelId)")) = 1
              /\ rendered[1].channel_data =
                    (IF TheCall("channels.list(id)").outcome = "items"
                     THEN fetch_channel_data(channel_id[1],
                              Response(<<ChannelItem(channel_id[1])>>))
                     ELSE None)
              /\ rendered[1].video_data = video_data
              /\ video_data = None <=> video = None
              /\ TheCall("search.list(channelId)").outcome # "items"
                    => video_data = None

\* C4 as stated: the error page is rendered exactly when resolve_channel_id
\* returned no channel id
C4_ErrorIffNotResolved == Rendering(channel_id = None)

\* C4 amended: the error page is rendered exactly when resolve_channel_id
\* returned None or an empty channel id; otherwise both fetches are
\* attempted and the result page shows each piece or null
C4_ErrorIffNoneOrEmpty == Rendering(~Truthy(channel_id))

\* the profile fetch failed, the video fetch succeeded, and the result page
\* shows a null profile beside the video record
C4_Witness ==
    /\ Finished
    /\ ResultPage
    /\ TheCall("channels.list(id)").outcome = "raise"
    /\ rendered[1].channel_data = None
    /\ rendered[1].video_data # None

\* C5: a comment-threads query that succeeds with zero items gives exactly
\* the one "no comments available" record
C5_ZeroItemsGivesSentinel ==
    (CommentsFetched
        /\ TheCall("commentThreads.list(videoId)").outcome = "zero") =>
        /\ Len(comments_data) = 1
        /\ comments_data[1].author = <<"No comments">>
        /\ comments_data[1].text = <<"No comments available.">>
        /\ video_data # None => video_data[1].comments = comments_data

\* a video without comments was rendered with the sentinel
C5_Witness ==
    /\ Finished
    /\ threads = 0
    /\ Made("commentThreads.list(videoId)")
    /\ TheCall("commentThreads.list(videoId)").outcome = "zero"
    /\ video_data # None
    /\ Len(video_data[1].comments) = 1

Failed(op, text) ==
    \E k \in 1..Len(calls) :
        calls[k].op = op /\ calls[k].key = text /\ calls[k].outcome = "raise"

\* the annotation a text unit gets: None for a call that failed, the
\* pipeline's answer otherwise
SummaryFor(text) ==
    IF Failed("summarizer", text) THEN None ELSE Some(Summary(text))
SentimentFor(text) ==
    IF Failed("sentiment_analyzer", text) THEN None ELSE Some(Label(text))

Annotated(rec) == "summarized_comment" \in DOMAIN rec

\* C7: a failed summarize or classify call gives None in that one field;
\* every comment record is still there with its own annotations, and so
\* are the video record and the channel profile
C7_AnnotationFailureIsLocal ==
    /\ \A i \in 1..Len(comments_data) :
          Annotated(comments_data[i]) =>
              /\ comments_data[i].text = TextOf(comment_items[i])
              /\ comments_data[i].summarized_comment =
                    SummaryFor(comments_data[i].text)
              /\ comments_data[i].sentiment =
                    SentimentFor(comments_data[i].text)
    /\ (CommentsFetched
          /\ TheCall("commentThreads.list(videoId)").outcome = "items") =>
          Len(comments_data) = Len(comment_items)
    /\ (pc \in {"render", "done"} /\ video # None) =>
          /\ video_data # None
          /\ video_data[1].summarized_description =
                SummaryFor(video[1].snippet.description)
          /\ video_data[1].sentiment =
                SentimentFor(video[1].snippet.description)
          /\ video_data[1].comments = comments_data
    /\ (pc = "done" /\ Made("channels.list(id)")) =>
          /\ rendered[1].channel_data = channel_data
          /\ channel_data # None <=>
                TheCall("channels.list(id)").outcome = "items"

\* the description and the second comment could not be summarized, the
\* fourth comment could not be classified; all five comments, the video
\* record and the profile were rendered, the other fields annotated
C7_Witness ==
    /\ Finished
    /\ ResultPage
    /\ rendered[1].channel_data # None
    /\ rendered[1].video_data # None
    /\ rendered[1].video_data[1].summarized_description = None
    /\ rendered[1].video_data[1].sentiment # None
    /\ Len(rendered[1].video_data[1].comments) = 5
    /\ rendered[1].video_data[1].comments[2].summarized_comment = None
    /\ rendered[1].video_data[1].comments[2].sentiment # None
    /\ rendered[1].video_data[1].comments[3].summarized_comment # None
    /\ rendered[1].video_data[1].comments[4].sentiment = None

\* C8: no platform query is issued twice in a request, whatever it
\* returned; each query the request needs is issued once
C8_NoRetry ==
    /\ \A op \in PlatformOps : Len(CallsOf(op)) <= 1
    /\ Len(LookupCalls) <= 1
    /\ Resolved =>
          (Len(LookupCalls) = 1 <=> LookupOp(Route(url).branch) # "")
    /\ Finished =>
          /\ Made("channels.list(id)") <=> Truthy(channel_id)
          /\ Made("search.list(channelId)") <=> Truthy(channel_id)
          /\ Made("commentThreads.list(videoId)") <=> video # None

\* every query of the request failed or came back empty, and each was
\* issued once
C8_Witness ==
    /\ Finished
    /\ Len(CallsOf("videos.list(id)")) = 1
    /\ Len(CallsOf("channels.list(id)")) = 1
    /\ TheCall("channels.list(id)").outcome = "zero"
    /\ Len(CallsOf("search.list(channelId)")) = 1
    /\ Len(CallsOf("commentThreads.list(videoId)")) = 1
    /\ TheCall("commentThreads.list(videoId)").outcome = "raise"

IsAnnotation(c) == c.op \in {"summarizer", "sentiment_analyzer"}
IsDescription(c) == video # None /\ c.key = video[1].snippet.description

\* the place of a call in the order resolve, fetch profile, fetch latest
\* video, fetch comments, annotate text
StatedRank(c) ==
    CASE c.op \in LookupOps                     -> 1
      [] c.op = "channels.list(id)"             -> 2
      [] c.op = "search.list(channelId)"        -> 3
      [] c.op = "commentThreads.list(videoId)"  -> 4
      [] OTHER                                  -> 5

\* the place of a call in the order resolve, fetch profile, fetch latest
\* video, annotate the description, fetch comments, annotate the comments
CodeRank(c) ==
    CASE c.op \in LookupOps                     -> 1
      [] c.op = "channels.list(id)"             -> 2
      [] c.op = "search.list(channelId)"        -> 3
      [] IsAnnotation(c) /\ IsDescription(c)    -> 4
      [] c.op = "commentThreads.list(videoId)"  -> 5
      [] OTHER                                  -> 6

\* the calls follow one another in the order of rank, and nothing is
\* rendered before the last step
InOrder(rank(_)) ==
    /\ \A i \in 1..(Len(calls) - 1) : rank(calls[i]) <= rank(calls[i + 1])
    /\ rendered # None <=> pc = "done"

\* C9 as stated: resolve, fetch profile, fetch latest video, fetch
\* comments, annotate text, render; no text is annotated before the comment
\* fetch was issued
C9_AnnotateAfterCommentFetch == InOrder(StatedRank)

\* C9 amended: resolve, fetch profile, fetch latest video, annotate the
\* video description, fetch comments, annotate each comment, render; no
\* comment is annotated before the comment fetch was issued
C9_DescriptionBeforeCommentFetch == InOrder(CodeRank)

\* a request that went through every step
C9_Witness ==
    /\ Finished
    /\ Made("search.list(q)")
    /\ Made("channels.list(id)")
    /\ Made("commentThreads.list(videoId)")
    /\ \E i \in 1..Len(calls) : CodeRank(calls[i]) = 4
    /\ \E i \in 1..Len(calls) : CodeRank(calls[i]) = 6

\* C10: every record fetch_comments returns has the four fields author,
\* text, summarized_comment and sentiment
C10_FourFields ==
    \A i \in 1..Len(comments_data) :
        DOMAIN comments_data[i] =
            {"author", "text", "summarized_comment", "sentiment"}

====
